---- MODULE Spec2Model ----
(***************************************************************************)
(* The blind-box NFT allocation service of app.py: the two SQLite tables   *)
(* nft_inventory and assigned_nfts, init_db run at every process start,    *)
(* and assign_nft_to_order run by concurrent worker processes, one         *)
(* database statement per step.  The tables hold the committed contents of *)
(* the database file; a worker's uncommitted writes live in its own        *)
(* transaction until conn.commit() applies them or a rollback drops them.  *)
(* database.py's functions on its own file nfts.db, and the handler        *)
(* orders_paid_webhook around assign_nft_to_order, follow.                 *)
(***************************************************************************)
EXTENDS Integers, Sequences, FiniteSets, TLC

\* ------------------------------------------------------------------ bounds
\* Size of NFT_ITEMS_DATA (NUM_MAIN_SERIES * NUM_SUB_SERIES_PER_MAIN in the
\* source), scaled down.
NumItems == 2
\* Distinct order ids the concurrent workers are asked for.
NumOrders == 2
\* Worker processes serving requests on the same database file.
NumWorkers == 2
\* Restarts and assign_nft_to_order calls begun in one concurrent run.
MaxOps == 3

Workers == 1..NumWorkers
Orders == 1..NumOrders
\* A sequential run asks for more order ids than there are items.
SeqOrders == 1..(NumItems + 1)
\* The worker of a sequential run.
SeqWorker == CHOOSE p \in Workers : TRUE
Emails == {"a@x.com"}
NoWorker == 0
NoOrder == 0
\* Python's None.
None == [none |-> TRUE]
\* The exceptions assign_nft_to_order catches at line 139.
Errors == {"IntegrityError", "OperationalError"}

VARIABLES
    nft_inventory,   \* committed rows of table nft_inventory, in rowid order
    assigned_nfts,   \* committed rows of table assigned_nfts, in rowid order
    lock,            \* the worker holding SQLite's write (RESERVED) lock
    pc,              \* each worker's position in init_db / assign_nft_to_order
    order_id,        \* argument of the running assign_nft_to_order call
    customer_email,  \* argument of the running assign_nft_to_order call
    available_nft,   \* the row fetched at line 119
    txn,             \* the worker's uncommitted writes, in statement order
    result,          \* the value the call returned
    outcome,         \* how the call left: its return path or the exception caught
    pre,             \* the committed tables when the running operation began
    given,           \* per order id, the first item a finished call returned
    asked,           \* the distinct order ids asked for, in order of first call
    raised,          \* the statement at which the running call's exception was raised
    ops,             \* restarts and calls begun so far in a concurrent run
    nfts_db,         \* committed tables of database.py's file nfts.db
    handed,          \* per nft_id, how many get_unassigned_nft calls returned it
    hpc,             \* the position of orders_paid_webhook in the running request
    data,            \* the request body the handler received
    assigned_nft_info,         \* what assign_nft_to_order returned at line 192
    get_response,    \* local of line 209: unbound until requests.get returns
    response,        \* local of line 262: unbound until requests.put returns
    existing_note_attributes,  \* local of lines 207-224
    updated_note_attributes,   \* local of lines 227-248
    status,          \* the HTTP status the handler answered, 0 before it answers
    called           \* whether the running request has called assign_nft_to_order

tables == <<nft_inventory, assigned_nfts>>
history == <<pre, given, asked, raised>>
\* database.py's file and what its callers were handed.
\* orders_paid_webhook's locals and its answer.
web == <<hpc, data, assigned_nft_info, get_response, response,
         existing_note_attributes, updated_note_attributes, status>>
others == <<nfts_db, handed, web, called>>
vars == <<nft_inventory, assigned_nfts, lock, pc, order_id, customer_email,
          available_nft, txn, result, outcome, pre, given, asked, raised, ops,
          nfts_db, handed, hpc, data, assigned_nft_info, get_response,
          response, existing_note_attributes, updated_note_attributes, status,
          called>>

\* ------------------------------------------------------------ seed data
TEST_IMAGE_URLS == <<"url0", "url1">>

\* The k-th generated item: a unique id, a unique name, an image shared with
\* other items.
NFT_ITEMS_DATA ==
    [k \in 1..NumItems |->
        [id |-> k, name |-> <<"name", k>>,
         image_url |-> TEST_IMAGE_URLS[((k - 1) % Len(TEST_IMAGE_URLS)) + 1]]]

\* The row INSERT INTO nft_inventory (item_id, item_name, image_url) makes:
\* is_assigned takes its DEFAULT 0.
InventoryRow(item) ==
    [item_id |-> item.id, item_name |-> item.name,
     image_url |-> item.image_url, is_assigned |-> 0]

\* data_to_insert at line 85: one row per generated item.
SeedRows == [k \in 1..Len(NFT_ITEMS_DATA) |-> InventoryRow(NFT_ITEMS_DATA[k])]

\* ------------------------------------------------------------ SQL helpers
Range(s) == {s[i] : i \in 1..Len(s)}

\* UNIQUE on nft_inventory.item_id: may `rows` be appended to `inv`?
ItemIdsUniqueNoCheck(inv, rows) == TRUE

ItemIdsUnique(inv, rows) ==
    LET all == inv \o rows
    IN  \A i, j \in 1..Len(all) : all[i].item_id = all[j].item_id => i = j

\* UNIQUE on assigned_nfts.order_id: may a row for order o be inserted?
OrderIdFreeNoCheck(asg, o) == TRUE

OrderIdFree(asg, o) == \A i \in 1..Len(asg) : asg[i].order_id # o

\* SELECT ... FROM assigned_nfts WHERE order_id = ?, then fetchone().
ExistingAssignmentNever(asg, o) == None

ExistingAssignment(asg, o) ==
    IF \E i \in 1..Len(asg) : asg[i].order_id = o
    THEN LET i == CHOOSE i \in 1..Len(asg) : asg[i].order_id = o
         IN  [id |-> asg[i].assigned_nft_id, name |-> asg[i].assigned_nft_name,
              image_url |-> asg[i].assigned_nft_image]
    ELSE None

\* The rows SELECT ... FROM nft_inventory WHERE is_assigned = 0 ranges over.
UnassignedAnyRow(inv) == Range(inv)

Unassigned(inv) == {r \in Range(inv) : r.is_assigned = 0}

\* UPDATE nft_inventory SET is_assigned = 1 WHERE item_id = ?
SetAssignedNoRow(inv, id) == inv

SetAssigned(inv, id) ==
    [i \in 1..Len(inv) |->
        IF inv[i].item_id = id THEN [inv[i] EXCEPT !.is_assigned = 1] ELSE inv[i]]

\* One write of a transaction applied to the tables.
ApplyWrite(t, w) ==
    IF w.op = "update"
    THEN [inv |-> SetAssigned(t.inv, w.item_id), asg |-> t.asg]
    ELSE IF w.op = "insert"
    THEN [inv |-> t.inv, asg |-> Append(t.asg, w.row)]
    ELSE [inv |-> t.inv \o w.rows, asg |-> t.asg]

RECURSIVE ApplyTxn(_, _)
ApplyTxn(t, ws) ==
    IF ws = <<>> THEN t ELSE ApplyTxn(ApplyWrite(t, Head(ws)), Tail(ws))

\* A commit that would lose the INSERT into assigned_nfts.
CommitInventoryOnly(p) ==
    [inv |-> ApplyTxn([inv |-> nft_inventory, asg |-> assigned_nfts], txn[p]).inv,
     asg |-> assigned_nfts]

\* conn.commit(): the tables after worker p's transaction is applied.
Commit(p) == ApplyTxn([inv |-> nft_inventory, asg |-> assigned_nfts], txn[p])

\* conn.rollback(), or conn.close() with a transaction open: the tables
\* after worker p's transaction is dropped.
RollbackCommits(p) == Commit(p)

RollbackReturnsToPool(p) ==
    [inv |-> [i \in 1..Len(nft_inventory) |->
                IF available_nft[p] # None
                   /\ nft_inventory[i].item_id = available_nft[p].item_id
                THEN [nft_inventory[i] EXCEPT !.is_assigned = 0]
                ELSE nft_inventory[i]],
     asg |-> assigned_nfts]

Rollback(p) == [inv |-> nft_inventory, asg |-> assigned_nfts]

\* A connection that would keep the write lock after it is closed.
ReleaseKeeps(p) == lock

\* The lock after worker p's connection ends its transaction.
Release(p) == IF lock = p THEN NoWorker ELSE lock

\* ----------------------------------------------------------------- state
\* No request is being handled.
WebInit ==
    /\ hpc = "h_idle"
    /\ data = None
    /\ assigned_nft_info = None
    /\ get_response = "unbound"
    /\ response = "unbound"
    /\ existing_note_attributes = <<>>
    /\ updated_note_attributes = <<>>
    /\ status = 0
    /\ called = FALSE

Init ==
    /\ nft_inventory = <<>>
    /\ assigned_nfts = <<>>
    /\ lock = NoWorker
    /\ pc = [p \in Workers |-> "boot"]
    /\ order_id = [p \in Workers |-> NoOrder]
    /\ customer_email = [p \in Workers |-> ""]
    /\ available_nft = [p \in Workers |-> None]
    /\ txn = [p \in Workers |-> <<>>]
    /\ result = [p \in Workers |-> None]
    /\ outcome = [p \in Workers |-> ""]
    /\ pre = [inv |-> <<>>, asg |-> <<>>]
    /\ given = [o \in Orders \cup SeqOrders |-> None]
    /\ asked = <<>>
    /\ raised = ""
    /\ ops = 0
    /\ nfts_db = [inv |-> <<>>, asg |-> <<>>]
    /\ handed = [k \in 1..NumItems |-> 0]
    /\ WebInit

\* The call's locals once it has returned r through return statement way.
Finish(p, r, way) ==
    /\ pc' = [pc EXCEPT ![p] = "done"]
    /\ result' = [result EXCEPT ![p] = r]
    /\ outcome' = [outcome EXCEPT ![p] = way]
    /\ txn' = [txn EXCEPT ![p] = <<>>]

\* ---------------------------------------------------------------- init_db
\* CREATE TABLE IF NOT EXISTS (twice), then SELECT COUNT(*) FROM nft_inventory.
InitDbCountDrops(p) ==
    /\ pc[p] = "boot"
    /\ pc' = [pc EXCEPT ![p] = "populate"]
    /\ nft_inventory' = <<>>
    /\ UNCHANGED <<assigned_nfts, lock, order_id, customer_email,
                   available_nft, txn, result, outcome>>

InitDbCount(p) ==
    /\ pc[p] = "boot"
    /\ pc' = [pc EXCEPT ![p] =
                IF Len(nft_inventory) = 0 THEN "populate" ELSE "init_done"]
    /\ UNCHANGED <<tables, lock, order_id, customer_email, available_nft,
                   txn, result, outcome>>

\* executemany(INSERT INTO nft_inventory ...): takes the write lock; a UNIQUE
\* violation raises, is logged by `except Exception`, and conn.close() drops
\* the transaction.
InitDbInsert(p) ==
    /\ pc[p] = "populate"
    /\ lock = NoWorker
    /\ LET rows == SeedRows
       IN  IF ItemIdsUnique(nft_inventory, rows)
           THEN /\ txn' = [txn EXCEPT ![p] = <<[op |-> "populate", rows |-> rows]>>]
                /\ lock' = p
                /\ pc' = [pc EXCEPT ![p] = "init_commit"]
                /\ UNCHANGED tables
           ELSE /\ txn' = [txn EXCEPT ![p] = <<>>]
                /\ lock' = lock
                /\ pc' = [pc EXCEPT ![p] = "init_done"]
                /\ nft_inventory' = Rollback(p).inv
                /\ assigned_nfts' = Rollback(p).asg
    /\ UNCHANGED <<order_id, customer_email, available_nft, result, outcome>>

\* conn.commit() at line 87.
InitDbCommit(p) ==
    /\ pc[p] = "init_commit"
    /\ nft_inventory' = Commit(p).inv
    /\ assigned_nfts' = Commit(p).asg
    /\ lock' = Release(p)
    /\ txn' = [txn EXCEPT ![p] = <<>>]
    /\ pc' = [pc EXCEPT ![p] = "init_done"]
    /\ UNCHANGED <<order_id, customer_email, available_nft, result, outcome>>

\* init_db has returned: the process starts serving requests.
Serve(p) ==
    /\ pc[p] = "init_done"
    /\ pc' = [pc EXCEPT ![p] = "idle"]
    /\ UNCHANGED <<tables, lock, order_id, customer_email, available_nft,
                   txn, result, outcome>>

\* The process is restarted: the module is imported again and runs init_db.
Restart(p) ==
    /\ pc[p] = "idle"
    /\ pc' = [pc EXCEPT ![p] = "boot"]
    /\ UNCHANGED <<tables, lock, order_id, customer_email, available_nft,
                   txn, result, outcome>>

\* ---------------------------------------------------- assign_nft_to_order
\* The call assign_nft_to_order(o, e) begins.
AssignStart(p, o, e) ==
    /\ pc[p] = "idle"
    /\ order_id' = [order_id EXCEPT ![p] = o]
    /\ customer_email' = [customer_email EXCEPT ![p] = e]
    /\ pc' = [pc EXCEPT ![p] = "lookup"]
    /\ UNCHANGED <<tables, lock, available_nft, txn, result, outcome>>

\* Lines 108-116: the existing-assignment lookup.
AssignLookup(p) ==
    /\ pc[p] = "lookup"
    /\ LET existing_assignment == ExistingAssignment(assigned_nfts, order_id[p])
       IN  IF existing_assignment # None
           THEN Finish(p, existing_assignment, "existing")
           ELSE /\ pc' = [pc EXCEPT ![p] = "select"]
                /\ UNCHANGED <<txn, result, outcome>>
    /\ UNCHANGED <<tables, lock, order_id, customer_email, available_nft>>

\* Lines 118-121 and 136-138: SELECT ... WHERE is_assigned = 0 ORDER BY
\* RANDOM() LIMIT 1, read outside any write transaction.
AssignSelect(p) ==
    /\ pc[p] = "select"
    /\ IF Unassigned(nft_inventory) # {}
       THEN /\ \E r \in Unassigned(nft_inventory) :
                  available_nft' = [available_nft EXCEPT ![p] = r]
            /\ pc' = [pc EXCEPT ![p] = "update"]
            /\ UNCHANGED <<txn, result, outcome>>
       ELSE /\ Finish(p, None, "exhausted")
            /\ UNCHANGED available_nft
    /\ UNCHANGED <<tables, lock, order_id, customer_email>>

\* Line 124: the first write statement opens the transaction (sqlite3's
\* implicit BEGIN) and takes the write lock; it waits while another
\* connection holds it.
AssignUpdate(p) ==
    /\ pc[p] = "update"
    /\ lock = NoWorker
    /\ lock' = p
    /\ txn' = [txn EXCEPT ![p] =
                 <<[op |-> "update", item_id |-> available_nft[p].item_id]>>]
    /\ pc' = [pc EXCEPT ![p] = "insert"]
    /\ UNCHANGED <<tables, order_id, customer_email, available_nft, result, outcome>>

\* Lines 126-127, and 139-143 when the UNIQUE constraint on order_id raises
\* sqlite3.IntegrityError.
AssignInsert(p) ==
    /\ pc[p] = "insert"
    /\ IF OrderIdFree(assigned_nfts, order_id[p])
       THEN /\ txn' = [txn EXCEPT ![p] = Append(@,
                        [op |-> "insert",
                         row |-> [order_id |-> order_id[p],
                                  customer_email |-> customer_email[p],
                                  assigned_nft_id |-> available_nft[p].item_id,
                                  assigned_nft_name |-> available_nft[p].item_name,
                                  assigned_nft_image |-> available_nft[p].image_url]])]
            /\ pc' = [pc EXCEPT ![p] = "commit"]
            /\ UNCHANGED <<tables, lock, result, outcome>>
       ELSE /\ nft_inventory' = Rollback(p).inv
            /\ assigned_nfts' = Rollback(p).asg
            /\ lock' = Release(p)
            /\ Finish(p, None, "IntegrityError")
    /\ UNCHANGED <<order_id, customer_email, available_nft>>

\* Lines 128-135: conn.commit() and the return of the new item.
AssignCommit(p) ==
    /\ pc[p] = "commit"
    /\ nft_inventory' = Commit(p).inv
    /\ assigned_nfts' = Commit(p).asg
    /\ lock' = Release(p)
    /\ Finish(p, [id |-> available_nft[p].item_id,
                  name |-> available_nft[p].item_name,
                  image_url |-> available_nft[p].image_url], "assigned")
    /\ UNCHANGED <<order_id, customer_email, available_nft>>

\* The caller has the result; the worker takes the next request.
AssignReturn(p) ==
    /\ pc[p] = "done"
    /\ pc' = [pc EXCEPT ![p] = "idle"]
    /\ order_id' = [order_id EXCEPT ![p] = NoOrder]
    /\ customer_email' = [customer_email EXCEPT ![p] = ""]
    /\ available_nft' = [available_nft EXCEPT ![p] = None]
    /\ result' = [result EXCEPT ![p] = None]
    /\ outcome' = [outcome EXCEPT ![p] = ""]
    /\ UNCHANGED <<tables, lock, txn>>

\* Lines 139-143: a statement of assign_nft_to_order raises sqlite3.Error
\* (I/O error, "database is locked" after the busy timeout): rollback,
\* return None.
AssignStorageError(p) ==
    /\ pc[p] \in {"lookup", "select", "update", "insert", "commit"}
    /\ nft_inventory' = Rollback(p).inv
    /\ assigned_nfts' = Rollback(p).asg
    /\ lock' = Release(p)
    /\ Finish(p, None, "OperationalError")
    /\ UNCHANGED <<order_id, customer_email, available_nft>>

\* Lines 93-97: a statement of init_db raises; the error is logged and
\* conn.close() drops the open transaction.
InitDbStorageError(p) ==
    /\ pc[p] \in {"boot", "populate", "init_commit"}
    /\ nft_inventory' = Rollback(p).inv
    /\ assigned_nfts' = Rollback(p).asg
    /\ lock' = Release(p)
    /\ txn' = [txn EXCEPT ![p] = <<>>]
    /\ pc' = [pc EXCEPT ![p] = "init_done"]
    /\ UNCHANGED <<order_id, customer_email, available_nft, result, outcome>>

\* ------------------------------------------------------- specifications
\* Concurrent workers from an empty database file: every process runs
\* init_db, serves calls and may be restarted; statements may fail.
Next ==
    \E p \in Workers :
        \/ InitDbCount(p) /\ UNCHANGED <<history, ops, others>>
        \/ InitDbInsert(p) /\ UNCHANGED <<history, ops, others>>
        \/ InitDbCommit(p) /\ UNCHANGED <<history, ops, others>>
        \/ InitDbStorageError(p) /\ UNCHANGED <<history, ops, others>>
        \/ Serve(p) /\ UNCHANGED <<history, ops, others>>
        \/ Restart(p) /\ ops < MaxOps /\ ops' = ops + 1
           /\ UNCHANGED <<history, others>>
        \/ \E o \in Orders, e \in Emails :
              AssignStart(p, o, e) /\ ops < MaxOps /\ ops' = ops + 1
              /\ UNCHANGED <<history, others>>
        \/ AssignLookup(p) /\ UNCHANGED <<history, ops, others>>
        \/ AssignSelect(p) /\ UNCHANGED <<history, ops, others>>
        \/ AssignUpdate(p) /\ UNCHANGED <<history, ops, others>>
        \/ AssignInsert(p) /\ UNCHANGED <<history, ops, others>>
        \/ AssignCommit(p) /\ UNCHANGED <<history, ops, others>>
        \/ AssignStorageError(p) /\ UNCHANGED <<history, ops, others>>
        \/ AssignReturn(p) /\ UNCHANGED <<history, ops, others>>

Spec == Init /\ [][Next]_vars

\* What a sequential run records: the tables as the operation began, the
\* first item each order id was given, the order ids in order of first call.
Track(p) ==
    /\ pre' = IF pc[p] \in {"boot", "idle"}
              THEN [inv |-> nft_inventory, asg |-> assigned_nfts]
              ELSE pre
    /\ given' = IF pc[p] = "done" /\ result[p] # None /\ given[order_id[p]] = None
                THEN [given EXCEPT ![order_id[p]] = result[p]]
                ELSE given
    /\ asked' = IF pc[p] = "idle" /\ pc'[p] = "lookup"
                   /\ order_id'[p] \notin Range(asked)
                THEN Append(asked, order_id'[p])
                ELSE asked
    /\ raised' = IF pc'[p] = "done" /\ outcome'[p] \in Errors THEN pc[p]
                 ELSE IF pc[p] = "done" THEN ""
                 ELSE raised
    /\ UNCHANGED <<ops, others>>

\* One process, one operation at a time, no statement fails.
NextSeq ==
    \/ InitDbCount(SeqWorker) /\ Track(SeqWorker)
    \/ InitDbInsert(SeqWorker) /\ Track(SeqWorker)
    \/ InitDbCommit(SeqWorker) /\ Track(SeqWorker)
    \/ Serve(SeqWorker) /\ Track(SeqWorker)
    \/ Restart(SeqWorker) /\ Track(SeqWorker)
    \/ \E o \in SeqOrders, e \in Emails :
          AssignStart(SeqWorker, o, e) /\ Track(SeqWorker)
    \/ AssignLookup(SeqWorker) /\ Track(SeqWorker)
    \/ AssignSelect(SeqWorker) /\ Track(SeqWorker)
    \/ AssignUpdate(SeqWorker) /\ Track(SeqWorker)
    \/ AssignInsert(SeqWorker) /\ Track(SeqWorker)
    \/ AssignCommit(SeqWorker) /\ Track(SeqWorker)
    \/ AssignReturn(SeqWorker) /\ Track(SeqWorker)

SpecSeq == Init /\ [][NextSeq]_vars

\* One process, one operation at a time, statements may fail.
NextFault ==
    \/ NextSeq
    \/ InitDbStorageError(SeqWorker) /\ Track(SeqWorker)
    \/ AssignStorageError(SeqWorker) /\ Track(SeqWorker)

SpecFault == Init /\ [][NextFault]_vars

\* ------------------------------------------------------------ database.py
\* nft_data.py's NFT_ITEMS: a unique nft_id and name, an image shared by the
\* items of a main series.
NFT_ITEMS ==
    [k \in 1..NumItems |->
        [nft_id |-> k, image_url |-> TEST_IMAGE_URLS[((k - 1) % Len(TEST_IMAGE_URLS)) + 1],
         name |-> <<"name", k>>]]

\* The row init_db(nft_items) inserts: is_assigned takes its DEFAULT 0.
DbInventoryRow(item) ==
    [nft_id |-> item.nft_id, image_url |-> item.image_url, name |-> item.name,
     is_assigned |-> 0]

\* UNIQUE on assigned_nfts.assigned_to_order_id.
DbOrderIdFreeNoCheck(asg, o) == TRUE

DbOrderIdFree(asg, o) == \A i \in 1..Len(asg) : asg[i].assigned_to_order_id # o

\* SELECT ... FROM nft_inventory WHERE is_assigned = 0.
DbUnassigned(inv) == {r \in Range(inv) : r.is_assigned = 0}

\* UPDATE nft_inventory SET is_assigned = 1 WHERE nft_id = ?
DbSetAssigned(inv, id) ==
    [i \in 1..Len(inv) |->
        IF inv[i].nft_id = id THEN [inv[i] EXCEPT !.is_assigned = 1] ELSE inv[i]]

\* SELECT COUNT(*) FROM assigned_nfts WHERE assigned_to_order_id = ?
DbCountRows(asg, o) ==
    Cardinality({i \in 1..Len(asg) : asg[i].assigned_to_order_id = o})

DbApplyWrite(t, w) ==
    IF w.op = "update"
    THEN [inv |-> DbSetAssigned(t.inv, w.nft_id), asg |-> t.asg]
    ELSE IF w.op = "insert"
    THEN [inv |-> t.inv, asg |-> Append(t.asg, w.row)]
    ELSE [inv |-> t.inv \o w.rows, asg |-> t.asg]

RECURSIVE DbApplyTxn(_, _)
DbApplyTxn(t, ws) ==
    IF ws = <<>> THEN t ELSE DbApplyTxn(DbApplyWrite(t, Head(ws)), Tail(ws))

\* conn.commit() on nfts.db.
DbCommit(p) == DbApplyTxn(nfts_db, txn[p])

\* conn.rollback() / conn.close() on nfts.db.
DbRollback(p) == nfts_db

\* nfts.db after init_db(NFT_ITEMS), every worker waiting for a request.
InitDb ==
    /\ nft_inventory = <<>>
    /\ assigned_nfts = <<>>
    /\ lock = NoWorker
    /\ pc = [p \in Workers |-> "db_idle"]
    /\ order_id = [p \in Workers |-> NoOrder]
    /\ customer_email = [p \in Workers |-> ""]
    /\ available_nft = [p \in Workers |-> None]
    /\ txn = [p \in Workers |-> <<>>]
    /\ result = [p \in Workers |-> None]
    /\ outcome = [p \in Workers |-> ""]
    /\ pre = [inv |-> <<>>, asg |-> <<>>]
    /\ given = [o \in Orders \cup SeqOrders |-> None]
    /\ asked = <<>>
    /\ raised = ""
    /\ ops = 0
    /\ nfts_db = [inv |-> [k \in 1..Len(NFT_ITEMS) |-> DbInventoryRow(NFT_ITEMS[k])],
                  asg |-> <<>>]
    /\ handed = [k \in 1..NumItems |-> 0]
    /\ WebInit

\* The call get_unassigned_nft() begins.
GetStart(p) ==
    /\ pc[p] = "db_idle"
    /\ pc' = [pc EXCEPT ![p] = "g_begin"]
    /\ available_nft' = [available_nft EXCEPT ![p] = None]
    /\ UNCHANGED <<nfts_db, lock, order_id, customer_email, txn, result, outcome>>

\* Line 100: BEGIN IMMEDIATE takes the write lock, waiting while another
\* connection holds it.
GetBegin(p) ==
    /\ pc[p] = "g_begin"
    /\ lock = NoWorker
    /\ lock' = p
    /\ pc' = [pc EXCEPT ![p] = "g_select"]
    /\ UNCHANGED <<nfts_db, order_id, customer_email, available_nft, txn,
                   result, outcome>>

\* Lines 103-107 and 113-116: the SELECT inside the transaction; with no
\* unassigned row, rollback and return None.
GetSelect(p) ==
    /\ pc[p] = "g_select"
    /\ IF DbUnassigned(nfts_db.inv) # {}
       THEN /\ \E nft \in DbUnassigned(nfts_db.inv) :
                  available_nft' = [available_nft EXCEPT ![p] = nft]
            /\ pc' = [pc EXCEPT ![p] = "g_update"]
            /\ UNCHANGED <<nfts_db, lock, txn, result, outcome>>
       ELSE /\ nfts_db' = DbRollback(p)
            /\ lock' = Release(p)
            /\ Finish(p, None, "exhausted")
            /\ UNCHANGED available_nft
    /\ UNCHANGED <<order_id, customer_email>>

\* Line 109: the UPDATE inside the transaction.
GetUpdate(p) ==
    /\ pc[p] = "g_update"
    /\ txn' = [txn EXCEPT ![p] =
                 <<[op |-> "update", nft_id |-> available_nft[p].nft_id]>>]
    /\ pc' = [pc EXCEPT ![p] = "g_commit"]
    /\ UNCHANGED <<nfts_db, lock, order_id, customer_email, available_nft,
                   result, outcome>>

\* Lines 110-112: conn.commit() and the return of the claimed item.
GetCommit(p) ==
    /\ pc[p] = "g_commit"
    /\ nfts_db' = DbCommit(p)
    /\ lock' = Release(p)
    /\ Finish(p, [nft_id |-> available_nft[p].nft_id,
                  image_url |-> available_nft[p].image_url,
                  name |-> available_nft[p].name], "assigned")
    /\ UNCHANGED <<order_id, customer_email, available_nft>>

\* Lines 117-121: a statement of get_unassigned_nft raises sqlite3.Error
\* ("database is locked" after the busy timeout, an I/O error): rollback,
\* return None.
GetStorageError(p) ==
    /\ pc[p] \in {"g_begin", "g_select", "g_update", "g_commit"}
    /\ nfts_db' = DbRollback(p)
    /\ lock' = Release(p)
    /\ Finish(p, None, "OperationalError")
    /\ UNCHANGED <<order_id, customer_email, available_nft>>

\* The call record_assignment(nft_id, image_url, name, o, e) begins; nft is
\* the inventory row the caller passes.
RecordStart(p, nft, o, e) ==
    /\ pc[p] = "db_idle"
    /\ pc' = [pc EXCEPT ![p] = "r_insert"]
    /\ available_nft' = [available_nft EXCEPT ![p] = nft]
    /\ order_id' = [order_id EXCEPT ![p] = o]
    /\ customer_email' = [customer_email EXCEPT ![p] = e]
    /\ UNCHANGED <<nfts_db, lock, txn, result, outcome>>

\* Lines 136-139 and 143-145: the INSERT opens the transaction and takes the
\* write lock; a UNIQUE violation on assigned_to_order_id raises
\* sqlite3.IntegrityError, and the call returns False.
RecordInsert(p) ==
    /\ pc[p] = "r_insert"
    /\ lock = NoWorker
    /\ IF DbOrderIdFree(nfts_db.asg, order_id[p])
       THEN /\ txn' = [txn EXCEPT ![p] =
                        <<[op |-> "insert",
                           row |-> [nft_id |-> available_nft[p].nft_id,
                                    image_url |-> available_nft[p].image_url,
                                    name |-> available_nft[p].name,
                                    assigned_to_order_id |-> order_id[p],
                                    assigned_to_customer_email |-> customer_email[p]]]>>]
            /\ lock' = p
            /\ pc' = [pc EXCEPT ![p] = "r_commit"]
            /\ UNCHANGED <<nfts_db, result, outcome>>
       ELSE /\ nfts_db' = DbRollback(p)
            /\ lock' = lock
            /\ Finish(p, FALSE, "IntegrityError")
    /\ UNCHANGED <<order_id, customer_email, available_nft>>

\* Lines 140-142: conn.commit(), return True.
RecordCommit(p) ==
    /\ pc[p] = "r_commit"
    /\ nfts_db' = DbCommit(p)
    /\ lock' = Release(p)
    /\ Finish(p, TRUE, "recorded")
    /\ UNCHANGED <<order_id, customer_email, available_nft>>

\* Lines 146-150: another sqlite3.Error: rollback, return False.
RecordStorageError(p) ==
    /\ pc[p] \in {"r_insert", "r_commit"}
    /\ nfts_db' = DbRollback(p)
    /\ lock' = Release(p)
    /\ Finish(p, FALSE, "OperationalError")
    /\ UNCHANGED <<order_id, customer_email, available_nft>>

\* The call check_order_assigned(o) begins.
CheckStart(p, o) ==
    /\ pc[p] = "db_idle"
    /\ pc' = [pc EXCEPT ![p] = "c_select"]
    /\ order_id' = [order_id EXCEPT ![p] = o]
    /\ UNCHANGED <<nfts_db, lock, customer_email, available_nft, txn, result,
                   outcome>>

\* Lines 164-165: return COUNT(*) > 0.
CheckSelect(p) ==
    /\ pc[p] = "c_select"
    /\ Finish(p, DbCountRows(nfts_db.asg, order_id[p]) > 0, "checked")
    /\ UNCHANGED <<nfts_db, lock, order_id, customer_email, available_nft>>

\* Lines 166-168: the SELECT raises sqlite3.Error: return False.
CheckStorageError(p) ==
    /\ pc[p] = "c_select"
    /\ Finish(p, FALSE, "OperationalError")
    /\ UNCHANGED <<nfts_db, lock, order_id, customer_email, available_nft>>

\* The caller has the result; the worker takes the next request.
DbReturn(p) ==
    /\ pc[p] = "done"
    /\ pc' = [pc EXCEPT ![p] = "db_idle"]
    /\ order_id' = [order_id EXCEPT ![p] = NoOrder]
    /\ customer_email' = [customer_email EXCEPT ![p] = ""]
    /\ available_nft' = [available_nft EXCEPT ![p] = None]
    /\ result' = [result EXCEPT ![p] = None]
    /\ outcome' = [outcome EXCEPT ![p] = ""]
    /\ UNCHANGED <<nfts_db, lock, txn>>

\* What a run of database.py records: the items get_unassigned_nft returned.
TrackDb(p) ==
    /\ handed' = IF pc[p] = "g_commit" /\ pc'[p] = "done" /\ outcome'[p] = "assigned"
                 THEN [handed EXCEPT ![result'[p].nft_id] = @ + 1]
                 ELSE handed
    /\ UNCHANGED <<tables, history, web, called>>

\* The rows a caller may pass to record_assignment: those a call of
\* get_unassigned_nft has returned.
Claimed(inv) == {r \in Range(inv) : handed[r.nft_id] > 0}

\* Concurrent workers calling database.py's functions on nfts.db in any
\* order; statements may fail.
NextDb ==
    \E p \in Workers :
        \/ GetStart(p) /\ ops < MaxOps /\ ops' = ops + 1 /\ TrackDb(p)
        \/ GetBegin(p) /\ TrackDb(p) /\ UNCHANGED ops
        \/ GetSelect(p) /\ TrackDb(p) /\ UNCHANGED ops
        \/ GetUpdate(p) /\ TrackDb(p) /\ UNCHANGED ops
        \/ GetCommit(p) /\ TrackDb(p) /\ UNCHANGED ops
        \/ GetStorageError(p) /\ TrackDb(p) /\ UNCHANGED ops
        \/ \E nft \in Claimed(nfts_db.inv), o \in Orders, e \in Emails :
              RecordStart(p, nft, o, e) /\ ops < MaxOps /\ ops' = ops + 1
              /\ TrackDb(p)
        \/ RecordInsert(p) /\ TrackDb(p) /\ UNCHANGED ops
        \/ RecordCommit(p) /\ TrackDb(p) /\ UNCHANGED ops
        \/ RecordStorageError(p) /\ TrackDb(p) /\ UNCHANGED ops
        \/ \E o \in Orders :
              CheckStart(p, o) /\ ops < MaxOps /\ ops' = ops + 1 /\ TrackDb(p)
        \/ CheckSelect(p) /\ TrackDb(p) /\ UNCHANGED ops
        \/ CheckStorageError(p) /\ TrackDb(p) /\ UNCHANGED ops
        \/ DbReturn(p) /\ TrackDb(p) /\ UNCHANGED ops

SpecDb == InitDb /\ [][NextDb]_vars

\* ------------------------------------------------------ concurrent start
\* data_to_insert at database.py line 46.
DbSeedRows == [k \in 1..Len(NFT_ITEMS) |-> DbInventoryRow(NFT_ITEMS[k])]

\* PRIMARY KEY on nft_inventory.nft_id: may `rows` be appended to `inv`?
DbItemIdsUnique(inv, rows) ==
    LET all == inv \o rows
    IN  \A i, j \in 1..Len(all) : all[i].nft_id = all[j].nft_id => i = j

\* Every process is about to run database.py's init_db on an empty nfts.db.
InitDbBoot ==
    /\ nft_inventory = <<>>
    /\ assigned_nfts = <<>>
    /\ lock = NoWorker
    /\ pc = [p \in Workers |-> "db_boot"]
    /\ order_id = [p \in Workers |-> NoOrder]
    /\ customer_email = [p \in Workers |-> ""]
    /\ available_nft = [p \in Workers |-> None]
    /\ txn = [p \in Workers |-> <<>>]
    /\ result = [p \in Workers |-> None]
    /\ outcome = [p \in Workers |-> ""]
    /\ pre = [inv |-> <<>>, asg |-> <<>>]
    /\ given = [o \in Orders \cup SeqOrders |-> None]
    /\ asked = <<>>
    /\ raised = ""
    /\ ops = 0
    /\ nfts_db = [inv |-> <<>>, asg |-> <<>>]
    /\ handed = [k \in 1..NumItems |-> 0]
    /\ WebInit

\* database.py lines 31-43: CREATE TABLE IF NOT EXISTS, then SELECT COUNT(*).
DbInitCount(p) ==
    /\ pc[p] = "db_boot"
    /\ pc' = [pc EXCEPT ![p] =
                IF Len(nfts_db.inv) = 0 THEN "db_populate" ELSE "db_idle"]
    /\ UNCHANGED <<nfts_db, lock, order_id, customer_email, available_nft,
                   txn, result, outcome>>

\* database.py lines 46-50 and 78-83: executemany takes the write lock; a
\* PRIMARY KEY violation raises sqlite3.IntegrityError, which is logged, and
\* conn.close() drops the transaction.
DbInitInsert(p) ==
    /\ pc[p] = "db_populate"
    /\ lock = NoWorker
    /\ IF DbItemIdsUnique(nfts_db.inv, DbSeedRows)
       THEN /\ txn' = [txn EXCEPT ![p] = <<[op |-> "populate", rows |-> DbSeedRows]>>]
            /\ lock' = p
            /\ pc' = [pc EXCEPT ![p] = "db_init_commit"]
            /\ UNCHANGED nfts_db
       ELSE /\ txn' = [txn EXCEPT ![p] = <<>>]
            /\ lock' = lock
            /\ pc' = [pc EXCEPT ![p] = "db_idle"]
            /\ nfts_db' = DbRollback(p)
    /\ UNCHANGED <<order_id, customer_email, available_nft, result, outcome>>

\* database.py lines 51-83: conn.commit(), the second CREATE TABLE, return.
DbInitCommit(p) ==
    /\ pc[p] = "db_init_commit"
    /\ nfts_db' = DbCommit(p)
    /\ lock' = Release(p)
    /\ txn' = [txn EXCEPT ![p] = <<>>]
    /\ pc' = [pc EXCEPT ![p] = "db_idle"]
    /\ UNCHANGED <<order_id, customer_email, available_nft, result, outcome>>

\* database.py lines 78-83: executemany waits for the write lock another
\* connection holds until the busy timeout raises "database is locked".
DbInitLocked(p) ==
    /\ pc[p] = "db_populate"
    /\ lock \notin {NoWorker, p}
    /\ nfts_db' = DbRollback(p)
    /\ pc' = [pc EXCEPT ![p] = "db_idle"]
    /\ UNCHANGED <<lock, order_id, customer_email, available_nft, txn,
                   result, outcome>>

\* app.py lines 86 and 93-97: the same wait in app.py's init_db.
InitDbLocked(p) ==
    /\ pc[p] = "populate"
    /\ lock \notin {NoWorker, p}
    /\ InitDbStorageError(p)

\* What a concurrent start records: the statement at which a process's bulk
\* insert ran and failed.
TrackBoot(p) ==
    /\ raised' = IF /\ pc[p] \in {"populate", "db_populate"}
                    /\ pc'[p] \in {"init_done", "db_idle"}
                    /\ lock = NoWorker
                 THEN pc[p]
                 ELSE raised
    /\ UNCHANGED <<pre, given, asked, handed, web, called>>

\* Concurrent processes starting on an empty database file, app.py's or
\* database.py's; a process may be restarted once it serves.
NextBoot ==
    \E p \in Workers :
        \/ InitDbCount(p) /\ TrackBoot(p) /\ UNCHANGED <<ops, nfts_db>>
        \/ InitDbInsert(p) /\ TrackBoot(p) /\ UNCHANGED <<ops, nfts_db>>
        \/ InitDbCommit(p) /\ TrackBoot(p) /\ UNCHANGED <<ops, nfts_db>>
        \/ InitDbLocked(p) /\ TrackBoot(p) /\ UNCHANGED <<ops, nfts_db>>
        \/ Serve(p) /\ TrackBoot(p) /\ UNCHANGED <<ops, nfts_db>>
        \/ Restart(p) /\ ops < MaxOps /\ ops' = ops + 1 /\ TrackBoot(p)
              /\ UNCHANGED nfts_db
        \/ DbInitCount(p) /\ TrackBoot(p) /\ UNCHANGED <<ops, tables>>
        \/ DbInitInsert(p) /\ TrackBoot(p) /\ UNCHANGED <<ops, tables>>
        \/ DbInitCommit(p) /\ TrackBoot(p) /\ UNCHANGED <<ops, tables>>
        \/ DbInitLocked(p) /\ TrackBoot(p) /\ UNCHANGED <<ops, tables>>

SpecBoot == (Init \/ InitDbBoot) /\ [][NextBoot]_vars

\* ------------------------------------------------------- fair scheduling
\* app.py's store after init_db, every worker serving.
InitServing ==
    /\ nft_inventory = SeedRows
    /\ assigned_nfts = <<>>
    /\ lock = NoWorker
    /\ pc = [p \in Workers |-> "idle"]
    /\ order_id = [p \in Workers |-> NoOrder]
    /\ customer_email = [p \in Workers |-> ""]
    /\ available_nft = [p \in Workers |-> None]
    /\ txn = [p \in Workers |-> <<>>]
    /\ result = [p \in Workers |-> None]
    /\ outcome = [p \in Workers |-> ""]
    /\ pre = [inv |-> <<>>, asg |-> <<>>]
    /\ given = [o \in Orders \cup SeqOrders |-> None]
    /\ asked = <<>>
    /\ raised = ""
    /\ ops = 0
    /\ nfts_db = [inv |-> <<>>, asg |-> <<>>]
    /\ handed = [k \in 1..NumItems |-> 0]
    /\ WebInit

\* Calls begun in one fairly scheduled run, one per worker at most.
MaxLiveOps == 2

\* A request reaches worker p: a call of assign_nft_to_order on app.py's
\* file, or of get_unassigned_nft on database.py's.
StartLive(p) ==
    \/ \E o \in Orders, e \in Emails :
          AssignStart(p, o, e) /\ ops < MaxLiveOps /\ ops' = ops + 1
          /\ UNCHANGED <<history, others>>
    \/ GetStart(p) /\ ops < MaxLiveOps /\ ops' = ops + 1 /\ TrackDb(p)

\* The next statement of worker p's running call, up to its return; a
\* statement waiting for the write lock raises "database is locked" when the
\* busy timeout expires.
StepLive(p) ==
    \/ AssignLookup(p) /\ UNCHANGED <<history, ops, others>>
    \/ AssignSelect(p) /\ UNCHANGED <<history, ops, others>>
    \/ AssignUpdate(p) /\ UNCHANGED <<history, ops, others>>
    \/ AssignInsert(p) /\ UNCHANGED <<history, ops, others>>
    \/ AssignCommit(p) /\ UNCHANGED <<history, ops, others>>
    \/ AssignStorageError(p) /\ UNCHANGED <<history, ops, others>>
    \/ GetBegin(p) /\ TrackDb(p) /\ UNCHANGED ops
    \/ GetSelect(p) /\ TrackDb(p) /\ UNCHANGED ops
    \/ GetUpdate(p) /\ TrackDb(p) /\ UNCHANGED ops
    \/ GetCommit(p) /\ TrackDb(p) /\ UNCHANGED ops
    \/ GetStorageError(p) /\ TrackDb(p) /\ UNCHANGED ops

NextLive == \E p \in Workers : StartLive(p) \/ StepLive(p)

\* Concurrent workers of one program (app.py's or database.py's callers);
\* every worker process keeps running its call.
SpecLive ==
    /\ InitServing \/ InitDb
    /\ [][NextLive]_vars
    /\ \A p \in Workers : WF_vars(StepLive(p))

\* ---------------------------------------------------- orders_paid_webhook
\* Entries an order's note_attributes may hold before the merge.
MaxAttrs == 2

AttrNames ==
    {"Assigned_NFT_ID", "Assigned_NFT_Name", "Assigned_NFT_Image_URL", "gift_note"}

\* A value the commerce API holds for an entry it already has: not a string.
OldValue == [type |-> "num", val |-> 0]

\* A TEXT column of the store read by sqlite3: a Python str.
ItemValue(x) == [type |-> "str", val |-> x]

\* Python's str(): the same text, of type str.
Str(v) == [type |-> "str", val |-> v.val]

\* The note_attributes lists of the GET response: at most one entry per name.
NoteLists ==
    UNION {{[i \in 1..n |-> [name |-> f[i], value |-> OldValue]] :
               f \in {g \in [1..n -> AttrNames] :
                        \A i, j \in 1..n : g[i] = g[j] => i = j}} :
           n \in 0..MaxAttrs}

\* Lines 231-239: the loop over the copied list.
MergeLoop(attrs, info) ==
    [i \in 1..Len(attrs) |->
        IF attrs[i].name = "Assigned_NFT_ID"
        THEN [attrs[i] EXCEPT !.value = Str(ItemValue(info.id))]
        ELSE IF attrs[i].name = "Assigned_NFT_Name"
        THEN [attrs[i] EXCEPT !.value = Str(ItemValue(info.name))]
        ELSE IF attrs[i].name = "Assigned_NFT_Image_URL"
        THEN [attrs[i] EXCEPT !.value = Str(ItemValue(info.image_url))]
        ELSE attrs[i]]

\* Line 235: set only by an entry named Assigned_NFT_ID.
nft_id_key_exists(attrs) ==
    \E i \in 1..Len(attrs) : attrs[i].name = "Assigned_NFT_ID"

\* Lines 227-248: copy, update in place, append the three entries when no
\* Assigned_NFT_ID entry was seen, then str() every value.
Merge(existing, info) ==
    LET looped == MergeLoop(existing, info)
        appended ==
            IF nft_id_key_exists(existing) THEN looped
            ELSE looped \o
                 <<[name |-> "Assigned_NFT_ID", value |-> Str(ItemValue(info.id))],
                   [name |-> "Assigned_NFT_Name", value |-> Str(ItemValue(info.name))],
                   [name |-> "Assigned_NFT_Image_URL",
                    value |-> Str(ItemValue(info.image_url))]>>
    IN  [i \in 1..Len(appended) |-> [appended[i] EXCEPT !.value = Str(@)]]

\* What current_total_price may hold in the JSON body.
Prices == {"absent", "number", "numeric_string", "text", "null"}

\* Line 182: float(data.get('current_total_price', 0.0)).
Float(price) ==
    IF price \in {"absent", "number", "numeric_string"} THEN "ok"
    ELSE IF price = "text" THEN "ValueError"
    ELSE "TypeError"

\* The request bodies: empty, not JSON, JSON that is no object, or an object
\* whose fields may be absent (NoOrder, "").
Requests ==
    {[body |-> b] : b \in {"empty", "invalid_json", "array"}}
    \cup [body : {"object"}, id : {NoOrder} \cup SeqOrders,
          contact_email : {""} \cup Emails, email : {""} \cup Emails,
          current_total_price : Prices, currency : {"", "USD"},
          name : {"", "#1001"}]

\* Line 181: data.get('contact_email') or data.get('email').
CustomerEmail(d) == IF d.contact_email # "" THEN d.contact_email ELSE d.email

\* Line 186: not all([order_id, customer_email, currency, order_name]).
MissingEssential(d) ==
    d.id = NoOrder \/ CustomerEmail(d) = "" \/ d.currency = "" \/ d.name = ""

\* A return jsonify(...), s.
Respond(s) ==
    /\ status' = s
    /\ hpc' = "h_done"

\* Line 160: a POST arrives at a worker that is serving.
HookRequest(p, r) ==
    /\ hpc = "h_idle"
    /\ pc[p] = "idle"
    /\ data' = r
    /\ hpc' = "h_body"
    /\ UNCHANGED <<tables, lock, pc, order_id, customer_email, available_nft,
                   txn, result, outcome, assigned_nft_info, get_response,
                   response, existing_note_attributes, updated_note_attributes,
                   status>>

\* Lines 163-165.
HookBody(p) ==
    /\ hpc = "h_body"
    /\ IF data.body = "empty" THEN Respond(400)
       ELSE hpc' = "h_json" /\ UNCHANGED status
    /\ UNCHANGED <<tables, lock, pc, order_id, customer_email, available_nft,
                   txn, result, outcome, data, assigned_nft_info, get_response,
                   response, existing_note_attributes, updated_note_attributes>>

\* Lines 167-177.
HookJson(p) ==
    /\ hpc = "h_json"
    /\ IF data.body = "invalid_json" THEN Respond(400)
       ELSE hpc' = "h_extract" /\ UNCHANGED status
    /\ UNCHANGED <<tables, lock, pc, order_id, customer_email, available_nft,
                   txn, result, outcome, data, assigned_nft_info, get_response,
                   response, existing_note_attributes, updated_note_attributes>>

\* Lines 180-188 with the handlers of lines 288-299: data.get on a
\* non-object raises AttributeError (400); float() raises ValueError (400)
\* or TypeError (caught at line 297: 500); a missing field answers 400.
HookExtract(p) ==
    /\ hpc = "h_extract"
    /\ IF data.body # "object" THEN Respond(400)
       ELSE IF Float(data.current_total_price) = "ValueError" THEN Respond(400)
       ELSE IF Float(data.current_total_price) = "TypeError" THEN Respond(500)
       ELSE IF MissingEssential(data) THEN Respond(400)
       ELSE hpc' = "h_call" /\ UNCHANGED status
    /\ UNCHANGED <<tables, lock, pc, order_id, customer_email, available_nft,
                   txn, result, outcome, data, assigned_nft_info, get_response,
                   response, existing_note_attributes, updated_note_attributes>>

\* Line 192: the call assign_nft_to_order(order_id, customer_email).
HookCall(p) ==
    /\ hpc = "h_call"
    /\ AssignStart(p, data.id, CustomerEmail(data))
    /\ hpc' = "h_wait"
    /\ UNCHANGED <<data, assigned_nft_info, get_response, response,
                   existing_note_attributes, updated_note_attributes, status>>

\* Lines 192-194 and 284-286: the call returns; None answers 500.
HookAssigned(p) ==
    /\ hpc = "h_wait"
    /\ AssignReturn(p)
    /\ assigned_nft_info' = result[p]
    /\ IF result[p] # None THEN hpc' = "h_creds" /\ UNCHANGED status
       ELSE Respond(500)
    /\ UNCHANGED <<data, get_response, response, existing_note_attributes,
                   updated_note_attributes>>

\* Lines 197-200 and 275-283: without both environment variables the
\* notification is skipped and the handler answers 200.
HookCreds(p, set) ==
    /\ hpc = "h_creds"
    /\ IF set THEN hpc' = "h_get" /\ UNCHANGED status
       ELSE Respond(200)
    /\ UNCHANGED <<tables, lock, pc, order_id, customer_email, available_nft,
                   txn, result, outcome, data, assigned_nft_info, get_response,
                   response, existing_note_attributes, updated_note_attributes>>

\* Lines 207-224: requests.get answers 2xx with the order's list ex, or
\* answers an HTTP error (raise_for_status raises, get_response is bound), or
\* raises without a response: get_response is then unbound, line 216 raises
\* UnboundLocalError inside the handler, and line 297 answers 500.
HookGet(p, o, ex) ==
    /\ hpc = "h_get"
    /\ \/ /\ o = "ok"
          /\ get_response' = "ok"
          /\ existing_note_attributes' = ex
          /\ hpc' = "h_merge"
          /\ UNCHANGED status
       \/ /\ o = "http_error"
          /\ get_response' = "http_error"
          /\ existing_note_attributes' = <<>>
          /\ hpc' = "h_merge"
          /\ UNCHANGED status
       \/ /\ o = "no_response"
          /\ UNCHANGED <<get_response, existing_note_attributes>>
          /\ Respond(500)
    /\ UNCHANGED <<tables, lock, pc, order_id, customer_email, available_nft,
                   txn, result, outcome, data, assigned_nft_info, response,
                   updated_note_attributes>>

\* Lines 227-248.
HookMerge(p) ==
    /\ hpc = "h_merge"
    /\ updated_note_attributes' = Merge(existing_note_attributes, assigned_nft_info)
    /\ hpc' = "h_put"
    /\ UNCHANGED <<tables, lock, pc, order_id, customer_email, available_nft,
                   txn, result, outcome, data, assigned_nft_info, get_response,
                   response, existing_note_attributes, status>>

\* A failed PUT that would take the assignment back (the code has no such path).
HookPutUndoes(p, o) ==
    /\ hpc = "h_put"
    /\ response' = o
    /\ nft_inventory' = nft_inventory
    /\ assigned_nfts' = IF o = "ok" THEN assigned_nfts
                        ELSE SelectSeq(assigned_nfts,
                                       LAMBDA r : r.order_id # data.id)
    /\ Respond(200)
    /\ UNCHANGED <<lock, pc, order_id, customer_email, available_nft,
                   txn, result, outcome, data, assigned_nft_info, get_response,
                   existing_note_attributes, updated_note_attributes>>

\* Lines 261-283: requests.put answers 2xx or an HTTP error (logged), and
\* the handler answers 200; or it raises without a response: response is
\* unbound, line 267 raises UnboundLocalError, and line 297 answers 500.
HookPut(p, o) ==
    /\ hpc = "h_put"
    /\ IF o \in {"ok", "http_error"}
       THEN response' = o /\ Respond(200)
       ELSE UNCHANGED response /\ Respond(500)
    /\ UNCHANGED <<tables, lock, pc, order_id, customer_email, available_nft,
                   txn, result, outcome, data, assigned_nft_info, get_response,
                   existing_note_attributes, updated_note_attributes>>

\* The answer is sent; the handler's locals are gone.
HookDone(p) ==
    /\ hpc = "h_done"
    /\ hpc' = "h_idle"
    /\ data' = None
    /\ assigned_nft_info' = None
    /\ get_response' = "unbound"
    /\ response' = "unbound"
    /\ existing_note_attributes' = <<>>
    /\ updated_note_attributes' = <<>>
    /\ status' = 0
    /\ UNCHANGED <<tables, lock, pc, order_id, customer_email, available_nft,
                   txn, result, outcome>>

\* One process handling one webhook request at a time; database statements
\* and the two outbound requests may fail.
NextHook ==
    \/ InitDbCount(SeqWorker) /\ UNCHANGED <<history, ops, others>>
    \/ InitDbInsert(SeqWorker) /\ UNCHANGED <<history, ops, others>>
    \/ InitDbCommit(SeqWorker) /\ UNCHANGED <<history, ops, others>>
    \/ InitDbStorageError(SeqWorker) /\ UNCHANGED <<history, ops, others>>
    \/ Serve(SeqWorker) /\ UNCHANGED <<history, ops, others>>
    \/ Restart(SeqWorker) /\ hpc = "h_idle" /\ UNCHANGED <<history, ops, others>>
    \/ \E r \in Requests :
          /\ HookRequest(SeqWorker, r)
          /\ pre' = [inv |-> nft_inventory, asg |-> assigned_nfts]
          /\ called' = FALSE
          /\ UNCHANGED <<given, asked, raised, ops, nfts_db, handed>>
    \/ HookBody(SeqWorker) /\ UNCHANGED <<history, ops, nfts_db, handed, called>>
    \/ HookJson(SeqWorker) /\ UNCHANGED <<history, ops, nfts_db, handed, called>>
    \/ HookExtract(SeqWorker) /\ UNCHANGED <<history, ops, nfts_db, handed, called>>
    \/ HookCall(SeqWorker) /\ called' = TRUE
          /\ UNCHANGED <<history, ops, nfts_db, handed>>
    \/ AssignLookup(SeqWorker) /\ UNCHANGED <<history, ops, others>>
    \/ AssignSelect(SeqWorker) /\ UNCHANGED <<history, ops, others>>
    \/ AssignUpdate(SeqWorker) /\ UNCHANGED <<history, ops, others>>
    \/ AssignInsert(SeqWorker) /\ UNCHANGED <<history, ops, others>>
    \/ AssignCommit(SeqWorker) /\ UNCHANGED <<history, ops, others>>
    \/ AssignStorageError(SeqWorker) /\ UNCHANGED <<history, ops, others>>
    \/ HookAssigned(SeqWorker) /\ UNCHANGED <<history, ops, nfts_db, handed, called>>
    \/ \E set \in BOOLEAN :
          HookCreds(SeqWorker, set)
          /\ UNCHANGED <<history, ops, nfts_db, handed, called>>
    \/ \E o \in {"ok", "http_error", "no_response"}, ex \in NoteLists :
          HookGet(SeqWorker, o, ex)
          /\ UNCHANGED <<history, ops, nfts_db, handed, called>>
    \/ HookMerge(SeqWorker) /\ UNCHANGED <<history, ops, nfts_db, handed, called>>
    \/ \E o \in {"ok", "http_error", "no_response"} :
          HookPut(SeqWorker, o)
          /\ UNCHANGED <<history, ops, nfts_db, handed, called>>
    \/ HookDone(SeqWorker) /\ UNCHANGED <<history, ops, nfts_db, handed, called>>

SpecHook == Init /\ [][NextHook]_vars

\* --------------------------------------------------------------- claims
HasRow(asg, o) == \E i \in 1..Len(asg) : asg[i].order_id = o

AllAssigned(inv) == \A i \in 1..Len(inv) : inv[i].is_assigned = 1

AssignedCount(inv) == Cardinality({i \in 1..Len(inv) : inv[i].is_assigned = 1})

Referenced(asg, id) == \E i \in 1..Len(asg) : asg[i].assigned_nft_id = id

Flag(inv, id) ==
    IF \E i \in 1..Len(inv) : inv[i].item_id = id
    THEN inv[CHOOSE i \in 1..Len(inv) : inv[i].item_id = id].is_assigned
    ELSE -1

Min(a, b) == IF a < b THEN a ELSE b

\* C1: in a sequential run, once a call has returned an item for an order
\* id, every later call with that order id returns the same item (id, name,
\* image_url) and leaves nft_inventory and assigned_nfts as they were when
\* it began.
C1_IdempotentRetry ==
    \A p \in Workers :
        pc[p] = "done" /\ given[order_id[p]] # None
        => /\ result[p] = given[order_id[p]]
           /\ nft_inventory = pre.inv
           /\ assigned_nfts = pre.asg

C1_Witness ==
    \E p \in Workers :
        /\ pc[p] = "done"
        /\ given[order_id[p]] # None
        /\ result[p] = given[order_id[p]]
        /\ Unassigned(nft_inventory) # {}

\* C2: no two assigned_nfts rows with different order_id hold the same
\* assigned_nft_id, under any interleaving of concurrent calls.
C2_DistinctItems ==
    \A i, j \in 1..Len(assigned_nfts) :
        assigned_nfts[i].order_id # assigned_nfts[j].order_id
        => assigned_nfts[i].assigned_nft_id # assigned_nfts[j].assigned_nft_id

\* C3: assigned_nfts holds at most one row per order_id in every committed
\* state, and a row, once there, is never changed and never removed.
C3_OneRowPerOrder ==
    /\ [](\A i, j \in 1..Len(assigned_nfts) :
             assigned_nfts[i].order_id = assigned_nfts[j].order_id => i = j)
    /\ [][\A i \in 1..Len(assigned_nfts) :
             /\ i <= Len(assigned_nfts')
             /\ assigned_nfts'[i] = assigned_nfts[i]]_vars

C3_Witness ==
    \E p, q \in Workers :
        /\ p # q
        /\ pc[p] = "done" /\ outcome[p] = "assigned"
        /\ pc[q] = "done" /\ outcome[q] = "IntegrityError"
        /\ order_id[p] = order_id[q]
        /\ HasRow(assigned_nfts, order_id[p])

\* C4: in a sequential run, a call that begins when every inventory row is
\* assigned and its order id has no row returns the no-inventory outcome,
\* inserts no row and leaves nft_inventory unchanged.
C4_PoolExhausted ==
    \A p \in Workers :
        pc[p] = "done" /\ AllAssigned(pre.inv) /\ ~HasRow(pre.asg, order_id[p])
        => /\ result[p] = None
           /\ outcome[p] = "exhausted"
           /\ nft_inventory = pre.inv
           /\ assigned_nfts = pre.asg

C4_Witness ==
    \E p \in Workers :
        /\ pc[p] = "done"
        /\ pre.inv # <<>>
        /\ AllAssigned(pre.inv)
        /\ ~HasRow(pre.asg, order_id[p])
        /\ outcome[p] = "exhausted"

\* C5 as claimed: after a call whose INSERT failed on the UNIQUE order_id
\* constraint has returned, the item it marked assigned is still marked
\* assigned and no assigned_nfts row references it (it is stranded).
C5_Stranded ==
    \A p \in Workers :
        pc[p] = "done" /\ outcome[p] = "IntegrityError"
        => /\ Flag(nft_inventory, available_nft[p].item_id) = 1
           /\ ~Referenced(assigned_nfts, available_nft[p].item_id)

\* C5 as amended: the failed INSERT rolls the call's UPDATE back with it; the
\* call returns None with its transaction dropped and the write lock
\* released, and the item it selected is not stranded: it is marked assigned
\* only if a committed assigned_nfts row references it.
C5_RolledBack ==
    \A p \in Workers :
        pc[p] = "done" /\ outcome[p] = "IntegrityError"
        => /\ result[p] = None
           /\ txn[p] = <<>>
           /\ lock # p
           /\ Flag(nft_inventory, available_nft[p].item_id) = 1
              => Referenced(assigned_nfts, available_nft[p].item_id)

C5_Witness ==
    \E p \in Workers :
        /\ pc[p] = "done"
        /\ outcome[p] = "IntegrityError"
        /\ Flag(nft_inventory, available_nft[p].item_id) = 0

\* C6: a call whose database operation failed returns a value different from
\* the one returned when the pool is exhausted (None, line 138).
C6_ErrorDistinguishable ==
    \A p \in Workers :
        pc[p] = "done" /\ outcome[p] \in Errors => result[p] # None

\* C7: in a sequential run, after a call in which a statement raised
\* sqlite3.Error has returned, nft_inventory and assigned_nfts are exactly
\* as they were when the call began, and no transaction or lock is left.
C7_NoPartialClaim ==
    \A p \in Workers :
        pc[p] = "done" /\ outcome[p] \in Errors
        => /\ nft_inventory = pre.inv
           /\ assigned_nfts = pre.asg
           /\ txn[p] = <<>>
           /\ lock # p

C7_Witness ==
    \E p \in Workers :
        /\ pc[p] = "done"
        /\ outcome[p] = "OperationalError"
        /\ raised = "insert"
        /\ available_nft[p] # None

\* C8: in a sequential run on a store seeded with N items, the order ids
\* holding an item are exactly the first min(N, k) of the k distinct order
\* ids asked so far, one item each (assigned flags and rows both count
\* min(N, k)), and a call returns an item exactly when its order id is among
\* them.
C8_FirstNServed ==
    LET p == SeqWorker
        served == Min(Len(nft_inventory), Len(asked))
    IN  pc[p] \in {"idle", "done"}
        => /\ AssignedCount(nft_inventory) = served
           /\ Len(assigned_nfts) = served
           /\ \A k \in 1..served : assigned_nfts[k].order_id = asked[k]
           /\ pc[p] = "done"
              => (result[p] # None <=> \E k \in 1..served : asked[k] = order_id[p])

C8_Witness ==
    /\ pc[SeqWorker] = "done"
    /\ Len(nft_inventory) > 0
    /\ Len(asked) > Len(nft_inventory)
    /\ order_id[SeqWorker] = asked[Len(asked)]
    /\ outcome[SeqWorker] = "exhausted"

\* C9: item_id is unique across nft_inventory in every committed state, and
\* once the table holds rows the only change any step makes to it is turning
\* an is_assigned flag from 0 to 1.
C9_FlagsOnlyRise ==
    /\ [](\A i, j \in 1..Len(nft_inventory) :
             nft_inventory[i].item_id = nft_inventory[j].item_id => i = j)
    /\ [][nft_inventory # <<>>
          => /\ Len(nft_inventory') = Len(nft_inventory)
             /\ \A i \in 1..Len(nft_inventory) :
                   \/ nft_inventory'[i] = nft_inventory[i]
                   \/ /\ nft_inventory[i].is_assigned = 0
                      /\ nft_inventory'[i] =
                            [nft_inventory[i] EXCEPT !.is_assigned = 1]]_vars

C9_Witness ==
    \E p, q \in Workers :
        /\ pc[p] = "init_done"
        /\ pc[q] = "done" /\ outcome[q] \in Errors
        /\ \E i \in 1..Len(nft_inventory) : nft_inventory[i].is_assigned = 1

\* C10: in a sequential run, init_db on a store that already holds rows
\* leaves nft_inventory (flags included) and assigned_nfts exactly as they
\* were; on an empty store it leaves the seed rows, all unassigned, so a
\* second call changes nothing the first one made.
C10_InitDbIdempotent ==
    \A p \in Workers :
        pc[p] = "init_done"
        => /\ assigned_nfts = pre.asg
           /\ IF pre.inv # <<>>
              THEN nft_inventory = pre.inv
              ELSE nft_inventory = SeedRows

C10_Witness ==
    \E p \in Workers :
        /\ pc[p] = "init_done"
        /\ pre.inv # <<>>
        /\ AssignedCount(pre.inv) > 0
        /\ assigned_nfts # <<>>


DbFlag(inv, id) ==
    IF \E i \in 1..Len(inv) : inv[i].nft_id = id
    THEN inv[CHOOSE i \in 1..Len(inv) : inv[i].nft_id = id].is_assigned
    ELSE -1

\* A returned call of get_unassigned_nft (the only call without an order id).
GetReturned(p) == pc[p] = "done" /\ order_id[p] = NoOrder

\* C11: under any interleaving of get_unassigned_nft calls, a returned item
\* is flagged is_assigned = 1 when the call returns, no nft_id is returned
\* twice, and a call returns None, the pool-exhausted signal, only when no
\* row with is_assigned = 0 exists.
C11_PickAndClaim ==
    /\ \A k \in 1..NumItems : handed[k] <= 1
    /\ \A p \in Workers :
          GetReturned(p) /\ outcome[p] = "assigned"
          => DbFlag(nfts_db.inv, result[p].nft_id) = 1
    /\ \A p \in Workers :
          GetReturned(p) /\ outcome[p] # "assigned"
          => DbUnassigned(nfts_db.inv) = {}

\* The handler holds an item assign_nft_to_order returned and is at, or
\* past, the outbound notification.
Notifying ==
    \/ hpc \in {"h_creds", "h_get", "h_merge", "h_put"}
    \/ hpc = "h_done" /\ assigned_nft_info # None

\* C12: the outbound GET and PUT of orders_paid_webhook run only after the
\* assignment is committed (the row of the order names the item, the item is
\* flagged, no transaction is open), and no step of the notification,
\* whatever its outcome, changes nft_inventory or assigned_nfts.
C12_NotifyAfterCommit ==
    /\ [](Notifying =>
            /\ txn[SeqWorker] = <<>>
            /\ lock = NoWorker
            /\ \E i \in 1..Len(assigned_nfts) :
                  /\ assigned_nfts[i].order_id = data.id
                  /\ assigned_nfts[i].assigned_nft_id = assigned_nft_info.id
            /\ Flag(nft_inventory, assigned_nft_info.id) = 1)
    /\ [][Notifying => tables' = tables]_vars

C12_Witness ==
    /\ hpc = "h_done"
    /\ get_response = "http_error"
    /\ response = "http_error"
    /\ status = 200
    /\ HasRow(assigned_nfts, data.id)

\* C13: whenever assign_nft_to_order returns an item, a committed
\* assigned_nfts row of that order id names exactly the returned item, and
\* committed rows are never changed or removed afterwards, under any
\* interleaving including concurrent calls with the same order id.
C13_ReturnedIsLinked ==
    /\ [](\A p \in Workers :
            pc[p] = "done" /\ result[p] # None
            => \E i \in 1..Len(assigned_nfts) :
                  /\ assigned_nfts[i].order_id = order_id[p]
                  /\ assigned_nfts[i].assigned_nft_id = result[p].id
                  /\ assigned_nfts[i].assigned_nft_name = result[p].name
                  /\ assigned_nfts[i].assigned_nft_image = result[p].image_url)
    /\ [][\A i \in 1..Len(assigned_nfts) :
             /\ i <= Len(assigned_nfts')
             /\ assigned_nfts'[i] = assigned_nfts[i]]_vars

\* Two calls with the same order id ran concurrently: one returned the item,
\* the other lost at the INSERT.
C13_Witness ==
    \E p, q \in Workers :
        /\ p # q
        /\ pc[p] = "done" /\ outcome[p] = "assigned"
        /\ pc[q] = "done" /\ outcome[q] = "IntegrityError"
        /\ order_id[p] = order_id[q]
        /\ HasRow(assigned_nfts, order_id[p])

\* C14: once assign_nft_to_order has returned an item, the handler answers
\* 200 whatever happens to the outbound GET and PUT.
C14_NotifyFailureStill200 ==
    hpc = "h_done" /\ assigned_nft_info # None => status = 200

\* Entries of a note_attributes list with the given name.
Entries(attrs, n) == {i \in 1..Len(attrs) : attrs[i].name = n}

ExactlyOne(attrs, n, v) ==
    /\ Cardinality(Entries(attrs, n)) = 1
    /\ \A i \in Entries(attrs, n) : attrs[i].value = ItemValue(v)

\* C17: for every existing list with at most one entry per name, the merged
\* list holds exactly one Assigned_NFT_ID, one Assigned_NFT_Name and one
\* Assigned_NFT_Image_URL entry, each with the assigned item's value.
C17_MergeExactlyOne ==
    hpc = "h_put"
    => /\ ExactlyOne(updated_note_attributes, "Assigned_NFT_ID",
                     assigned_nft_info.id)
       /\ ExactlyOne(updated_note_attributes, "Assigned_NFT_Name",
                     assigned_nft_info.name)
       /\ ExactlyOne(updated_note_attributes, "Assigned_NFT_Image_URL",
                     assigned_nft_info.image_url)

\* The bodies the handler is to reject: empty, not JSON, a non-numeric
\* current_total_price, or a missing id, email, currency or name.
Rejected(d) ==
    \/ d.body \in {"empty", "invalid_json"}
    \/ /\ d.body = "object"
       /\ \/ d.current_total_price \in {"text", "null"}
          \/ d.id = NoOrder
          \/ d.contact_email = "" /\ d.email = ""
          \/ d.currency = ""
          \/ d.name = ""

\* C19: for such a body the handler answers 400, never calls
\* assign_nft_to_order, and leaves both tables as they were.
C19_Rejected400 ==
    hpc = "h_done" /\ Rejected(data)
    => /\ status = 400
       /\ ~called
       /\ nft_inventory = pre.inv
       /\ assigned_nfts = pre.asg

\* C20: every committed assigned_nfts row references an existing
\* nft_inventory row whose is_assigned flag is 1, under any interleaving of
\* assign_nft_to_order calls.
C20_RowsPointAtAssigned ==
    \A i \in 1..Len(assigned_nfts) :
        Flag(nft_inventory, assigned_nfts[i].assigned_nft_id) = 1

\* Two concurrent calls have committed rows.
C20_Witness ==
    /\ Len(assigned_nfts) = 2
    /\ \E p, q \in Workers : p # q /\ outcome[p] = "assigned" /\ outcome[q] = "assigned"

\* C15: record_assignment reaching its INSERT for an order id that already
\* has a row returns False and leaves assigned_nfts and nft_inventory as
\* they are: the item passed in keeps its flag.
C15_DuplicateRecordRefused ==
    [][\A p \in Workers :
          /\ pc[p] = "r_insert"
          /\ DbCountRows(nfts_db.asg, order_id[p]) > 0
          /\ pc'[p] # pc[p]
          => /\ pc'[p] = "done"
             /\ result'[p] = FALSE
             /\ nfts_db' = nfts_db]_vars

\* The item passed in was claimed before and is still flagged.
C15_Witness ==
    \E p \in Workers :
        /\ pc[p] = "done"
        /\ outcome[p] = "IntegrityError"
        /\ DbCountRows(nfts_db.asg, order_id[p]) = 1
        /\ DbFlag(nfts_db.inv, available_nft[p].nft_id) = 1
        /\ handed[available_nft[p].nft_id] = 1

\* C16: whatever the outcome of the lookup, a storage error included,
\* check_order_assigned returns True exactly when a row with that
\* assigned_to_order_id exists.
C16_CheckExact ==
    [][\A p \in Workers :
          pc[p] = "c_select" /\ pc'[p] = "done"
          => result'[p] = (DbCountRows(nfts_db.asg, order_id[p]) > 0)]_vars

\* Worker p is inside a call of assign_nft_to_order or get_unassigned_nft.
InCall(p) ==
    pc[p] \in {"lookup", "select", "update", "insert", "commit",
               "g_begin", "g_select", "g_update", "g_commit"}

\* C18: a worker that is not inside a call holds no write lock (every exit
\* path released it), and under fair scheduling every started call returns.
C18_LockReleasedAndReturns ==
    /\ [](\A p \in Workers : ~InCall(p) => lock # p)
    /\ \A p \in Workers : InCall(p) ~> pc[p] = "done"

\* A call returned "database is locked" while another held the lock, and
\* the lock is free again.
C18_Witness ==
    \E p, q \in Workers :
        /\ p # q
        /\ pc[p] = "done" /\ outcome[p] = "OperationalError"
        /\ pc[q] = "done" /\ outcome[q] = "assigned"
        /\ lock = NoWorker

\* C21: when processes run init_db concurrently on an empty store, the
\* committed nft_inventory is always empty or the seed rows, each exactly
\* once with is_assigned = 0 (no duplicate, no partial insert), and once
\* every process has returned from init_db it is the seed rows; for app.py's
\* init_db and for database.py's.
C21_ConcurrentInitDb ==
    /\ nft_inventory \in {<<>>, SeedRows}
    /\ nfts_db.inv \in {<<>>, DbSeedRows}
    /\ (\A p \in Workers : pc[p] \in {"init_done", "idle"})
       => nft_inventory = SeedRows
    /\ (\A p \in Workers : pc[p] = "db_idle") => nfts_db.inv = DbSeedRows

\* Two processes read COUNT(*) = 0; one committed the seed rows, the other's
\* bulk insert then failed on the UNIQUE item_id, and both have returned.
C21_Witness ==
    /\ ops = 0
    /\ raised = "populate"
    /\ \A p \in Workers : pc[p] = "init_done"
    /\ nft_inventory = SeedRows

====
